---- MODULE Spec2Model ----
(***************************************************************************)
(* State-machine model of the ASI MS2000 stage driver.                     *)
(*                                                                         *)
(*   MS2000            low-level protocol driver (connection, status,      *)
(*                     position, limits, setLimit, move, home, getSpeed,   *)
(*                     speed, close)                                       *)
(*   ASILinearMotor    per-axis facade (position_limits, move_to, moving,  *)
(*                     move_velocity, stop, home, homed, max_velocity)     *)
(*   MS2000Stage       multi-axis stage (construction with auto-homing,    *)
(*                     close)                                              *)
(*                                                                         *)
(* One caller drives the objects.  A step of the model is one exchange on  *)
(* the serial channel (a write followed by the read of its one-line        *)
(* reply) together with the code that runs up to the next exchange.  The   *)
(* controller firmware is the environment: it is busy after an accepted    *)
(* move and comes to rest on its own.  SharedSpec alone has two callers    *)
(* on the driver; there the write and the read of an exchange are steps    *)
(* of their own.                                                           *)
(*                                                                         *)
(* Units.  Native positions are integers in tenths of a micrometre.        *)
(* Engineering positions (units.Position, a float in the source) are       *)
(* integers counting steps of 1/EngOne of the engineering unit.  Time is   *)
(* in milliseconds.                                                        *)
(***************************************************************************)
EXTENDS Integers, Sequences, FiniteSets, TLC

\* ------------------------------------------------------------------------
\* Program constants
\* ------------------------------------------------------------------------

\* units.Time('30 s'), units.Time('30 s'), units.Time('50 ms'), in ms
HOME_TIMEOUT == 30000
MOVE_TIMEOUT == 30000
POLLING_PERIOD == 50

\* pos_tenths_um / 10e6 and position * 10e6
NATIVE_PER_ENG == 10000000
\* the engineering value 1.0 (the bound of `homed`), in engineering steps
EngOne == 100000000
\* move_velocity: direction * 10000000
JOG_DISTANCE == 10000000
\* stop: time.sleep(0.1), in ms
STOP_RETRY_DELAY == 100

\* ------------------------------------------------------------------------
\* Bounds of the model
\* ------------------------------------------------------------------------

\* malformed WHERE replies the controller sends during one call
MaxBadReplies == 2

\* ------------------------------------------------------------------------
\* Values
\* ------------------------------------------------------------------------

Axes == {"x", "y", "z"}
AxisOrder == <<"x", "y", "z">>
\* axis_idx = {'x': 0, 'y': 1, 'z': 2}[self.axis], 1-based here
AxisIdx(a) == CASE a = "x" -> 1 [] a = "y" -> 2 [] a = "z" -> 3

Abs(n) == IF n < 0 THEN 0 - n ELSE n

\* travel limits the controller reports (native)
DevLow == 0 - 20000000
DevUp == 20000000

\* speed settings of the controller at power-up (mm/s), one value per axis
DevSpeeds == [a \in Axes |-> CASE a = "x" -> 5 [] a = "y" -> 6 [] a = "z" -> 7]

\* limits given in the configuration (engineering steps): -5 mm .. 5 mm
CfgMin == 0 - 500000
CfgMax == 500000

\* targets a caller passes to move_to (engineering steps)
EngTargets == {200000, 1000000, 0 - 300000000}
\* velocities a caller passes to move_velocity
Velocities == {0 - 2, 0, 3}
\* positions an axis is seen at (native): the origin and the upper limit
PosValues == {0, DevUp}

\* ------------------------------------------------------------------------
\* State
\* ------------------------------------------------------------------------

VARIABLES
  pc,          \* where the caller stands: "idle", or the label of the next step
  stack,       \* labels to continue at when the running routine returns
  exc,         \* exception being raised by the routine that just returned
  retval,      \* value returned by the routine that just returned
  call,        \* the top-level call in progress or last made
  drvSel,      \* MS2000.position: the axes selected (x, y, z flags)
  drvArgs,     \* MS2000.move / speed: value per axis given (absent = None)
  drvRel,      \* MS2000.move: relative
  blk,         \* ASILinearMotor.home: blocking
  elapsed,     \* time.perf_counter() - start_time in a poll loop (ms)
  ctorIdx,     \* MS2000Stage.__init__: index of the axis being handled
  constructed, \* the MS2000Stage object exists
  cfgLimits,   \* per axis: position_limits given in the configuration
  limCache,    \* per axis: value cached by the position_limits property
  devMoving,   \* controller: executing a move (STATUS replies busy)
  devPos,      \* controller: position per axis (native)
  devSpeed,    \* controller: speed setting per axis (mm/s)
  devLim,      \* controller: travel limits per axis (native)
  resources,   \* the serial resources rm.list_resources() names, in order
  conn,        \* the connection: the VISA session and the `_stage` attribute
  probe,       \* MS2000.__init__: the probe loop's index and whether idn is bound
  thr,         \* concurrent callers of the driver: operation and position
  wire,        \* the last WireWindow writes and reads on the channel
  rxq,         \* replies the controller has sent that no caller has read yet
  accelWrite,  \* the last write of an acceleration property: axis and value
  chan,        \* the last ChanWindow exchanges of the current call on the channel
  nWhere,      \* exchanges of the current call: WHERE
  nStatus,     \*   STATUS
  nCmd,        \*   MOVE, MOVREL, SPEED, SETLOW and SETUP set commands
  nLim,        \*   SETLOW? and SETUP? queries
  nSpd,        \*   SPEED? queries
  nBad,        \* malformed WHERE replies received in the current call
  statusHist,  \* the first StatusWindow STATUS replies of the current call
  sent,        \* the set commands transmitted in the current call
  hReads,      \* stop(): this axis's position in each position() result
  hAttempts,   \* stop(): the coordinate passed to each move() attempt
  movingAtCall, \* controller was moving when the current call started
  limKnownAtCall \* the axis's limits were configured or cached at that time

ctlVars == <<pc, stack, exc, retval>>
drvVars == <<drvSel, drvArgs, drvRel>>
objVars == <<constructed, cfgLimits, limCache, ctorIdx>>
\* the serial link: its resources, the connection, the callers sharing it;
\* with it, the record of the last acceleration write
linkVars == <<resources, conn, probe, thr, wire, rxq, accelWrite>>
\* the controller and the link to it
devVars == <<devMoving, devPos, devSpeed, devLim, linkVars>>
cntVars == <<nWhere, nStatus, nCmd, nLim, nSpd, nBad, statusHist, sent>>
histVars == <<hReads, hAttempts, movingAtCall, limKnownAtCall>>
vars == <<pc, stack, exc, retval, call, drvSel, drvArgs, drvRel, blk,
          elapsed, ctorIdx, constructed, cfgLimits, limCache, devMoving, devPos,
          devSpeed, devLim, resources, conn, probe, thr, wire, rxq,
          accelWrite,
          chan, nWhere, nStatus, nCmd, nLim, nSpd, nBad, statusHist, sent,
          hReads, hAttempts, movingAtCall, limKnownAtCall>>

\* length of statusHist
StatusWindow == 4
\* length of chan
ChanWindow == 2
\* length of wire
WireWindow == 3
\* callers that share the driver
Threads == {1, 2}
IdleThread == [op |-> "none", pc |-> "idle"]
\* serial resources on the host
MaxResources == 3
\* close() calls counted on one stage object
MaxCloses == 3

NoLimits == [set |-> FALSE, min |-> 0, max |-> 0]
Range(lo, hi) == [set |-> TRUE, min |-> lo, max |-> hi]

NoArgs == [a \in {} |-> 0]
Call(o, a, v, b) == [op |-> o, axis |-> a, arg |-> v, blocking |-> b,
                     typed |-> TRUE, sel |-> {}, nonnum |-> {}, name |-> "X"]

\* Python exception class of each error
ExcClass(e) ==
  CASE e \in {"OutOfRange", "InvalidArgument"} -> "ValueError"
    [] e = "NotNumeric" -> "TypeError"
    [] e = "BadIndex" -> "IndexError"
    [] e \in {"DeviceBusy", "NotFound"} -> "RuntimeError"
    [] e \in {"Mismatch", "AddressNotFound"} -> "ValueError"
    [] e = "Unbound" -> "UnboundLocalError"
    [] e = "TransportError" -> "VisaIOError"
    [] e \in {"MoveTimeout", "HomeTimeout"} -> "TimeoutError"
    [] OTHER -> "none"

\* ------------------------------------------------------------------------
\* Unit conversion and range checks
\* ------------------------------------------------------------------------

\* one native increment in engineering steps: EngOne / 10e6
EngPerNative == EngOne \div NATIVE_PER_ENG

\* units.Position(pos_tenths_um / 10e6)
ToEng(n) == n * EngPerNative

\* round(position * 10e6, 3); targets are whole native increments, which
\* rounding to 3 decimals leaves as they are
ToNative(e) == e \div EngPerNative

\* a range check that forgets the lower limit
WithinRange_UpperOnly(r, p) == p <= r.max

\* units.PositionRange.within_range
WithinRange(r, p) == r.min <= p /\ p <= r.max

\* abs(float(current_pos)) < 1.0
Homed(n) == Abs(ToEng(n)) < EngOne

\* ------------------------------------------------------------------------
\* Serial channel and controller
\* ------------------------------------------------------------------------

Exchange(cmd, busy) == [cmd |-> cmd, busy |-> busy]

\* self.stage.query(...): one write and the read of its reply
Tx(cmd, busy) ==
  chan' = IF Len(chan) < ChanWindow THEN Append(chan, Exchange(cmd, busy))
          ELSE Append(Tail(chan), Exchange(cmd, busy))

LastTx == chan[Len(chan)]
PrevTx == chan[Len(chan) - 1]

MotionCmds == {"MOVE", "MOVREL", "SPEED"}

\* "B" in self.stage.query("STATUS"): the controller replies busy while moving
StatusReply == devMoving

\* a status that takes the busy token for idle
Status_TokenMeansIdle(busy) == busy

\* a status that ignores the busy token
Status_AlwaysIdle(busy) == TRUE

\* MS2000.status: not bool("B" in reply)
Status(busy) == ~busy

\* a moving that forgets to invert the driver's status
Moving_NotInverted(busy) == ~busy

\* ASILinearMotor.moving: not self._controller._stage.status()
Moving(busy) == ~Status(busy)

\* the coordinates of a WHERE reply, responses[1:], for the axes asked
WhereCoords(sel) ==
  LET pick(i) == AxisOrder[i] \in sel
      idx == SelectSeq(<<1, 2, 3>>, pick)
  IN  [i \in 1..Len(idx) |-> devPos[AxisOrder[idx[i]]]]

\* replies the firmware can give to WHERE: the coordinates asked for, or
\* a line with one coordinate dropped or duplicated
WhereReplies(sel) ==
  LET good == WhereCoords(sel)
  IN  {good} \cup
      (IF nBad < MaxBadReplies
         THEN {SubSeq(good, 1, Len(good) - 1), Append(good, good[1])}
         ELSE {})

\* the controller takes a MOVE or MOVREL and starts moving; the trajectory
\* is the firmware's, so positions change freely while it moves
DevAccept ==
  /\ devMoving' = TRUE
  /\ UNCHANGED <<devPos, devSpeed, devLim, linkVars>>

\* the controller moves one axis
DevDrift(a) ==
  /\ devMoving
  /\ \E p \in PosValues \ {devPos[a]} : devPos' = [devPos EXCEPT ![a] = p]
  /\ UNCHANGED <<devMoving, devSpeed, devLim, linkVars>>
  /\ UNCHANGED <<ctlVars, call, drvVars, blk, elapsed, objVars, chan,
                 cntVars, histVars>>

\* the move is complete: the controller reports idle
DevSettle ==
  /\ devMoving
  /\ devMoving' = FALSE
  /\ UNCHANGED <<devPos, devSpeed, devLim, linkVars>>
  /\ UNCHANGED <<ctlVars, call, drvVars, blk, elapsed, objVars, chan,
                 cntVars, histVars>>

\* ------------------------------------------------------------------------
\* Control flow
\* ------------------------------------------------------------------------

\* return from a routine, normally (e = "none") or by raising e
Return(e, v) ==
  /\ pc' = Head(stack)
  /\ stack' = Tail(stack)
  /\ exc' = e
  /\ retval' = v

\* call routine r, to continue at label k when it returns
Invoke(r, k) ==
  /\ pc' = r
  /\ stack' = <<k>> \o stack
  /\ exc' = "none"
  /\ retval' = <<>>

Goto(l) ==
  /\ pc' = l
  /\ UNCHANGED <<stack, exc, retval>>

\* a caller starts a top-level call
Begin(c, entry, stk, sel, args) ==
  /\ pc = "idle"
  /\ call' = c
  /\ pc' = entry
  /\ stack' = stk
  /\ exc' = "none"
  /\ retval' = <<>>
  /\ nWhere' = 0 /\ nStatus' = 0 /\ nCmd' = 0 /\ nLim' = 0 /\ nBad' = 0
  /\ nSpd' = 0
  /\ statusHist' = <<>> /\ sent' = <<>>
  /\ hReads' = <<>> /\ hAttempts' = <<>>
  /\ movingAtCall' = devMoving
  /\ limKnownAtCall' = (cfgLimits[c.axis].set \/ limCache[c.axis].set)
  /\ elapsed' = 0
  /\ drvSel' = sel /\ drvArgs' = args /\ drvRel' = FALSE
  /\ blk' = c.blocking
  /\ ctorIdx' = 1
  /\ chan' = <<>>

NoCall == Call("none", "x", 0, FALSE)

\* the top-level call returns to its caller, normally or with the error exc;
\* the frames of the call are gone
TopDone ==
  /\ pc = "top_done"
  /\ pc' = "idle"
  /\ constructed' = IF call.op = "ctor" THEN exc = "none" ELSE constructed
  /\ call' = NoCall
  /\ stack' = <<>> /\ exc' = "none" /\ retval' = <<>>
  /\ drvSel' = {} /\ drvArgs' = NoArgs /\ drvRel' = FALSE
  /\ blk' = FALSE /\ elapsed' = 0 /\ ctorIdx' = 1
  /\ nWhere' = 0 /\ nStatus' = 0 /\ nCmd' = 0 /\ nLim' = 0 /\ nBad' = 0
  /\ nSpd' = 0
  /\ statusHist' = <<>> /\ sent' = <<>>
  /\ hReads' = <<>> /\ hAttempts' = <<>>
  /\ movingAtCall' = FALSE
  /\ limKnownAtCall' = FALSE
  /\ chan' = <<>>
  /\ UNCHANGED <<cfgLimits, limCache, devVars>>

\* the call has ended and its result is about to reach the caller
Done(o) == pc = "top_done" /\ call.op = o
Ok == exc = "none"
Raised(e) == exc = e

NoteStatus(busy) ==
  /\ nStatus' = nStatus + 1
  /\ statusHist' = IF Len(statusHist) < StatusWindow
                     THEN Append(statusHist, busy) ELSE statusHist

\* ------------------------------------------------------------------------
\* MS2000: the protocol driver
\* ------------------------------------------------------------------------

\* position: if not (x or y or z)
NoAxis(sel) == sel = {}

\* position: len(coords) == x + y + z
CountMatches(coords, sel) == Len(coords) = Cardinality(sel)

\* position: the axes of the re-query, self.position()
RequerySel(sel) == Axes

\* MS2000.position(x, y, z)
DrvPosition ==
  /\ pc = "position"
  /\ IF NoAxis(drvSel)
       THEN /\ Return("InvalidArgument", <<>>)
            /\ UNCHANGED <<drvSel, chan, nWhere, nBad>>
       ELSE \E reply \in WhereReplies(drvSel) :
              /\ Tx("WHERE", FALSE)
              /\ nWhere' = nWhere + 1
              /\ IF CountMatches(reply, drvSel)
                   THEN /\ Return("none", reply)
                        /\ UNCHANGED <<drvSel, nBad>>
                   ELSE /\ drvSel' = RequerySel(drvSel)
                        /\ nBad' = nBad + 1
                        /\ UNCHANGED ctlVars
  /\ UNCHANGED <<call, drvArgs, drvRel, blk, elapsed, objVars, devVars,
                 nStatus, nCmd, nLim, statusHist, sent, nSpd,
                 histVars>>

\* move: if not (x is not None or y is not None or z is not None)
NoCoord(args) == DOMAIN args = {}

\* move: "MOVE" if not relative else "MOVREL"
MoveCmd(rel) == IF rel THEN "MOVREL" ELSE "MOVE"

\* a pre-check that lets the command through
BusyRejects_Never(busy) == FALSE

\* move, speed: if not self.status(): raise RuntimeError
BusyRejects(busy) == ~Status(busy)

\* move, speed, setLimit: not isinstance(coord, (int, float)) for a value given
NotNumeric(args) == \E k \in DOMAIN args : k \in call.nonnum

\* MS2000.move up to the STATUS pre-check
DrvMove ==
  /\ pc = "move"
  /\ IF NoCoord(drvArgs)
       THEN /\ Return("InvalidArgument", <<>>)
            /\ UNCHANGED <<chan, nStatus, statusHist>>
     ELSE IF NotNumeric(drvArgs)
       THEN /\ Return("NotNumeric", <<>>)
            /\ UNCHANGED <<chan, nStatus, statusHist>>
       ELSE /\ Tx("STATUS", StatusReply)
            /\ NoteStatus(StatusReply)
            /\ IF BusyRejects(StatusReply)
                 THEN Return("DeviceBusy", <<>>)
                 ELSE Goto("move_send")
  /\ UNCHANGED <<call, drvVars, blk, elapsed, objVars, devVars,
                 nWhere, nCmd, nLim, nBad, sent, nSpd,
                 histVars>>

\* MS2000.move: self.stage.query(instruction)
DrvMoveSend ==
  /\ pc = "move_send"
  /\ Tx(MoveCmd(drvRel), FALSE)
  /\ nCmd' = nCmd + 1
  /\ sent' = Append(sent, [cmd |-> MoveCmd(drvRel), args |-> drvArgs])
  /\ DevAccept
  /\ Return("none", <<>>)
  /\ UNCHANGED <<call, drvVars, blk, elapsed, objVars,
                 nWhere, nStatus, nLim, nBad, statusHist, nSpd,
                 histVars>>

\* speed: if not (x or y or z), true of a value None or 0
NoSpeed(args) == \A a \in DOMAIN args : args[a] = 0

\* MS2000.speed up to the STATUS pre-check
DrvSpeed ==
  /\ pc = "speed"
  /\ IF NoSpeed(drvArgs)
       THEN /\ Return("InvalidArgument", <<>>)
            /\ UNCHANGED <<chan, nStatus, statusHist>>
     ELSE IF NotNumeric(drvArgs)
       THEN /\ Return("NotNumeric", <<>>)
            /\ UNCHANGED <<chan, nStatus, statusHist>>
       ELSE /\ Tx("STATUS", StatusReply)
            /\ NoteStatus(StatusReply)
            /\ IF BusyRejects(StatusReply)
                 THEN Return("DeviceBusy", <<>>)
                 ELSE Goto("speed_send")
  /\ UNCHANGED <<call, drvVars, blk, elapsed, objVars, devVars,
                 nWhere, nCmd, nLim, nBad, sent, nSpd,
                 histVars>>

\* MS2000.speed: self.stage.query(instruction)
DrvSpeedSend ==
  /\ pc = "speed_send"
  /\ Tx("SPEED", FALSE)
  /\ nCmd' = nCmd + 1
  /\ sent' = Append(sent, [cmd |-> "SPEED", args |-> drvArgs])
  /\ devSpeed' = [a \in Axes |-> IF a \in DOMAIN drvArgs THEN drvArgs[a]
                                  ELSE devSpeed[a]]
  /\ Return("none", <<>>)
  /\ UNCHANGED <<call, drvVars, blk, elapsed, objVars, devMoving, devPos,
                 devLim, linkVars, nWhere, nStatus, nLim, nBad, statusHist, nSpd,
                 histVars>>

\* the axes asked for, in the order of the reply: x, y, z
AskedAxes(sel) ==
  LET asked(a) == a \in sel
  IN  SelectSeq(AxisOrder, asked)

\* MS2000.limits(x, y, z): the SETLOW query
DrvLimits ==
  /\ pc = "limits"
  /\ IF NoAxis(drvSel)
       THEN /\ Return("InvalidArgument", <<>>)
            /\ UNCHANGED <<chan, nLim>>
       ELSE /\ Tx("SETLOW?", FALSE)
            /\ nLim' = nLim + 1
            /\ Goto("limits_up")
  /\ UNCHANGED <<call, drvVars, blk, elapsed, objVars, devVars,
                 nWhere, nStatus, nCmd, nBad, statusHist, sent, nSpd,
                 histVars>>

\* MS2000.limits: the SETUP query and the zip of the two replies
DrvLimitsUp ==
  /\ pc = "limits_up"
  /\ Tx("SETUP?", FALSE)
  /\ nLim' = nLim + 1
  /\ Return("none", [i \in 1..Len(AskedAxes(drvSel)) |->
                       devLim[AskedAxes(drvSel)[i]]])
  /\ UNCHANGED <<call, drvVars, blk, elapsed, objVars, devVars,
                 nWhere, nStatus, nCmd, nBad, statusHist, sent, nSpd,
                 histVars>>

\* setLimit: axis in ("X", "Y", "Z")
AxisNames == {"X", "Y", "Z"}
AxisOfName(n) == CASE n = "X" -> "x" [] n = "Y" -> "y" [] n = "Z" -> "z"

\* setLimit: if not (lower or upper), true of a bound that is None or 0
NoBound(args) == \A k \in DOMAIN args : args[k] = 0

\* one bound of setLimit: nothing when it is None, TypeError when it is not
\* a number, else the set command
SetBound(label, key, cmd, idx, done) ==
  /\ pc = label
  /\ IF key \notin DOMAIN drvArgs
       THEN /\ done
            /\ UNCHANGED <<chan, nCmd, sent, devLim>>
     ELSE IF key \in call.nonnum
       THEN /\ Return("NotNumeric", <<>>)
            /\ UNCHANGED <<chan, nCmd, sent, devLim>>
       ELSE /\ Tx(cmd, FALSE)
            /\ nCmd' = nCmd + 1
            /\ sent' = Append(sent, [cmd |-> cmd,
                                     args |-> [n \in {call.name} |-> drvArgs[key]]])
            /\ devLim' = [devLim EXCEPT ![AxisOfName(call.name)][idx] = drvArgs[key]]
            /\ done
  /\ UNCHANGED <<call, drvVars, blk, elapsed, objVars, devMoving, devPos,
                 devSpeed, linkVars, nWhere, nStatus, nLim, nSpd, nBad, statusHist,
                 histVars>>

\* MS2000.setLimit(axis, lower, upper): the checks
DrvSetLimit ==
  /\ pc = "set_limit"
  /\ IF call.name \notin AxisNames \/ NoBound(drvArgs)
       THEN Return("InvalidArgument", <<>>)
       ELSE Goto("set_limit_low")
  /\ UNCHANGED <<call, drvVars, blk, elapsed, objVars, devVars, chan,
                 cntVars, histVars>>

\* setLimit: if lower is not None
DrvSetLimitLow ==
  SetBound("set_limit_low", "lower", "SETLOW", 1, Goto("set_limit_up"))

\* setLimit: if upper is not None
DrvSetLimitUp ==
  SetBound("set_limit_up", "upper", "SETUP", 2, Return("none", <<>>))

\* MS2000.getSpeed(x, y, z)
DrvGetSpeed ==
  /\ pc = "get_speed"
  /\ IF NoAxis(drvSel)
       THEN /\ Return("InvalidArgument", <<>>)
            /\ UNCHANGED <<chan, nSpd>>
       ELSE /\ Tx("SPEED?", FALSE)
            /\ nSpd' = nSpd + 1
            /\ Return("none", [i \in 1..Len(AskedAxes(drvSel)) |->
                                 devSpeed[AskedAxes(drvSel)[i]]])
  /\ UNCHANGED <<call, drvVars, blk, elapsed, objVars, devVars,
                 nWhere, nStatus, nCmd, nLim, nBad, statusHist, sent,
                 histVars>>

\* MS2000.status()
DrvStatus ==
  /\ pc = "status"
  /\ Tx("STATUS", StatusReply)
  /\ NoteStatus(StatusReply)
  /\ Return("none", <<Status(StatusReply)>>)
  /\ UNCHANGED <<call, drvVars, blk, elapsed, objVars, devVars,
                 nWhere, nCmd, nLim, nSpd, nBad, sent, histVars>>

\* a home that moves the calling axis only
HomeArgs_OwnAxis == [a \in {call.axis} |-> 0]

\* MS2000.home: self.move(x=0, y=0, z=0, relative=False)
HomeArgs == [a \in Axes |-> 0]

\* ------------------------------------------------------------------------
\* ASILinearMotor: the per-axis facade
\* ------------------------------------------------------------------------

\* a position_limits that is a plain property: it asks the controller on
\* every read of an axis without configured limits
Plim_Uncached ==
  /\ pc = "plim"
  /\ IF cfgLimits[call.axis].set
       THEN /\ limCache' = [limCache EXCEPT ![call.axis] = cfgLimits[call.axis]]
            /\ Return("none", <<>>)
            /\ UNCHANGED drvSel
       ELSE /\ drvSel' = Axes
            /\ Invoke("limits", "plim_store")
            /\ UNCHANGED limCache
  /\ UNCHANGED <<call, drvArgs, drvRel, blk, elapsed, constructed, cfgLimits,
                 ctorIdx, devVars, chan, cntVars, histVars>>

\* position_limits (cached_property): the cached value, the configured
\* limits, or a query of the controller
Plim ==
  /\ pc = "plim"
  /\ IF limCache[call.axis].set
       THEN /\ Return("none", <<>>)
            /\ UNCHANGED <<limCache, drvSel>>
       ELSE IF cfgLimits[call.axis].set
         THEN /\ limCache' = [limCache EXCEPT ![call.axis] = cfgLimits[call.axis]]
              /\ Return("none", <<>>)
              /\ UNCHANGED drvSel
         ELSE /\ drvSel' = Axes
              /\ Invoke("limits", "plim_store")
              /\ UNCHANGED limCache
  /\ UNCHANGED <<call, drvArgs, drvRel, blk, elapsed, constructed, cfgLimits,
                 ctorIdx, devVars, chan, cntVars, histVars>>

\* position_limits: PositionRange(lower_tenths_um/10e6, upper_tenths_um/10e6)
PlimStore ==
  /\ pc = "plim_store"
  /\ limCache' = [limCache EXCEPT ![call.axis] =
                    Range(ToEng(retval[AxisIdx(call.axis)][1]),
                          ToEng(retval[AxisIdx(call.axis)][2]))]
  /\ Return("none", <<>>)
  /\ UNCHANGED <<call, drvVars, blk, elapsed, constructed, cfgLimits,
                 ctorIdx, devVars, chan, cntVars, histVars>>

\* move_to: the range check and the call of the driver's move
MtCheck ==
  /\ pc = "mt_check"
  /\ IF ~WithinRange(limCache[call.axis], call.arg)
       THEN /\ Return("OutOfRange", <<>>)
            /\ UNCHANGED drvVars
       ELSE /\ drvArgs' = [a \in {call.axis} |-> ToNative(call.arg)]
            /\ drvRel' = FALSE
            /\ Invoke("move", "mt_after")
            /\ UNCHANGED drvSel
  /\ UNCHANGED <<call, blk, elapsed, objVars, devVars, chan, cntVars,
                 histVars>>

\* move_to: after the driver's move; start_time = time.perf_counter()
MtAfter ==
  /\ pc = "mt_after"
  /\ IF exc # "none" THEN Return(exc, <<>>)
     ELSE IF call.blocking THEN Goto("mt_poll")
     ELSE Return("none", <<>>)
  /\ elapsed' = 0
  /\ UNCHANGED <<call, drvVars, blk, objVars, devVars, chan, cntVars,
                 histVars>>

\* a timeout test with >= in place of >
TimedOut_AtBound(t, timeout) == t >= timeout

\* if time.perf_counter() - start_time > timeout
TimedOut(t, timeout) == t > timeout

\* a poll loop that halts the controller with a move command before it
\* raises the timeout error
Poll_StopsOnTimeout(label, timeout, err) ==
  /\ pc = label
  /\ NoteStatus(StatusReply)
  /\ IF ~Moving(StatusReply)
       THEN /\ Tx("STATUS", StatusReply)
            /\ Return("none", <<>>)
            /\ UNCHANGED <<elapsed, nCmd, sent, devMoving>>
       ELSE IF TimedOut(elapsed, timeout)
         THEN /\ Tx("MOVE", FALSE)
              /\ nCmd' = nCmd + 1
              /\ sent' = Append(sent, [cmd |-> "MOVE", args |-> drvArgs])
              /\ devMoving' = FALSE
              /\ Return(err, <<>>)
              /\ UNCHANGED elapsed
         ELSE /\ Tx("STATUS", StatusReply)
              /\ elapsed' = elapsed + POLLING_PERIOD
              /\ UNCHANGED <<ctlVars, nCmd, sent, devMoving>>
  /\ UNCHANGED <<call, drvVars, blk, objVars, devPos, devSpeed, devLim,
                 linkVars, nWhere, nLim, nBad, nSpd, histVars>>

\* one round of `while self.moving:` in move_to or home
Poll(label, timeout, err) ==
  /\ pc = label
  /\ Tx("STATUS", StatusReply)
  /\ NoteStatus(StatusReply)
  /\ IF ~Moving(StatusReply)
       THEN /\ Return("none", <<>>)
            /\ UNCHANGED elapsed
       ELSE IF TimedOut(elapsed, timeout)
         THEN /\ Return(err, <<>>)
              /\ UNCHANGED elapsed
         ELSE /\ elapsed' = elapsed + POLLING_PERIOD
              /\ UNCHANGED ctlVars
  /\ UNCHANGED <<call, drvVars, blk, objVars, devVars,
                 nWhere, nCmd, nLim, nBad, sent, nSpd,
                 histVars>>

PollLabels == {"mt_poll", "home_poll"}

MtPoll == Poll("mt_poll", MOVE_TIMEOUT, "MoveTimeout")

\* moving (property)
AxMoving ==
  /\ pc = "moving"
  /\ Tx("STATUS", StatusReply)
  /\ NoteStatus(StatusReply)
  /\ Return("none", <<Moving(StatusReply)>>)
  /\ UNCHANGED <<call, drvVars, blk, elapsed, objVars, devVars,
                 nWhere, nCmd, nLim, nBad, sent, nSpd,
                 histVars>>

\* a direction that is the sign of the velocity: none for a velocity of zero
Direction_ZeroRests(v) == IF v > 0 THEN 1 ELSE IF v < 0 THEN 0 - 1 ELSE 0

\* a direction that carries the magnitude of the velocity
Direction_Magnitude(v) == v

\* move_velocity: direction = 1 if velocity > 0 else -1
Direction(v) == IF v > 0 THEN 1 ELSE 0 - 1

\* move_velocity
MvCheck ==
  /\ pc = "move_velocity"
  /\ IF ~call.typed
       THEN /\ Return("InvalidArgument", <<>>)
            /\ UNCHANGED drvVars
       ELSE /\ drvArgs' = [a \in {call.axis} |-> Direction(call.arg) * JOG_DISTANCE]
            /\ drvRel' = TRUE
            /\ Goto("move")
            /\ UNCHANGED drvSel
  /\ UNCHANGED <<call, blk, elapsed, objVars, devVars, chan, cntVars,
                 histVars>>

\* stop: except RuntimeError
StopCatches(e) == ExcClass(e) = "RuntimeError"

\* a retry that reuses the position read before the first attempt
StopCoord_Stale(reads) == reads[1]

\* stop: current_pos_tenths_um[axis_idx] of the position() result just read
StopCoord(reads) == reads[Len(reads)]

\* stop: a position() result arrived; move to this axis's coordinate
StopGotPos(label, next) ==
  /\ pc = label
  /\ IF exc # "none"
       THEN /\ Return(exc, <<>>)
            /\ UNCHANGED <<drvVars, hReads, hAttempts>>
       ELSE /\ hReads' = Append(hReads, retval[AxisIdx(call.axis)])
            /\ hAttempts' = Append(hAttempts, StopCoord(hReads'))
            /\ drvArgs' = [a \in {call.axis} |-> StopCoord(hReads')]
            /\ drvRel' = FALSE
            /\ Invoke("move", next)
            /\ UNCHANGED drvSel
  /\ UNCHANGED <<call, blk, elapsed, objVars, devVars, chan, cntVars,
                 movingAtCall, limKnownAtCall>>

StopPos1 == StopGotPos("stop_pos1", "stop_move1")

\* stop: the first move returned; on RuntimeError sleep and read again
StopMove1 ==
  /\ pc = "stop_move1"
  /\ IF exc = "none" THEN /\ Return("none", <<>>)
                          /\ UNCHANGED <<drvSel, elapsed>>
     ELSE IF StopCatches(exc) THEN /\ elapsed' = elapsed + STOP_RETRY_DELAY
                                   /\ drvSel' = Axes
                                   /\ Invoke("position", "stop_pos2")
     ELSE /\ Return(exc, <<>>)
          /\ UNCHANGED <<drvSel, elapsed>>
  /\ UNCHANGED <<call, drvArgs, drvRel, blk, objVars, devVars,
                 chan, cntVars, histVars>>

StopPos2 == StopGotPos("stop_pos2", "stop_move2")

\* stop: the second move returned; its error, if any, goes to the caller
StopMove2 ==
  /\ pc = "stop_move2"
  /\ Return(exc, <<>>)
  /\ UNCHANGED <<call, drvVars, blk, elapsed, objVars, devVars,
                 chan, cntVars, histVars>>

\* home: self._controller._stage.home()
AxHome ==
  /\ pc = "home"
  /\ drvArgs' = HomeArgs
  /\ drvRel' = FALSE
  /\ Invoke("move", "home_after")
  /\ UNCHANGED <<call, drvSel, blk, elapsed, objVars, devVars, chan,
                 cntVars, histVars>>

\* home: after the driver's home; start_time = time.perf_counter()
HomeAfter ==
  /\ pc = "home_after"
  /\ IF exc # "none" THEN Return(exc, <<>>)
     ELSE IF blk THEN Goto("home_poll")
     ELSE Return("none", <<>>)
  /\ elapsed' = 0
  /\ UNCHANGED <<call, drvVars, blk, objVars, devVars, chan, cntVars,
                 histVars>>

HomePoll == Poll("home_poll", HOME_TIMEOUT, "HomeTimeout")

\* max_velocity (getter): getSpeed(x=(axis == 'x'), y=(axis == 'y'), z=(axis == 'z'))
AxMaxVelocity ==
  /\ pc = "max_velocity"
  /\ drvSel' = {call.axis}
  /\ Invoke("get_speed", "max_velocity_ret")
  /\ UNCHANGED <<call, drvArgs, drvRel, blk, elapsed, objVars, devVars,
                 chan, cntVars, histVars>>

\* speeds[axis_idx]: the index lies within the tuple
IndexOk(t, i) == i <= Len(t)

\* max_velocity (getter): units.Velocity(speeds[axis_idx])
AxMaxVelocityRet ==
  /\ pc = "max_velocity_ret"
  /\ IF exc # "none" THEN Return(exc, <<>>)
     ELSE IF ~IndexOk(retval, AxisIdx(call.axis)) THEN Return("BadIndex", <<>>)
     ELSE Return("none", <<retval[AxisIdx(call.axis)]>>)
  /\ UNCHANGED <<call, drvVars, blk, elapsed, objVars, devVars, chan,
                 cntVars, histVars>>

\* max_velocity (setter): self._controller._stage.speed(**{self.axis: v})
AxSetMaxVelocity ==
  /\ pc = "set_max_velocity"
  /\ drvArgs' = [a \in {call.axis} |-> call.arg]
  /\ Goto("speed")
  /\ UNCHANGED <<call, drvSel, drvRel, blk, elapsed, objVars, devVars,
                 chan, cntVars, histVars>>

\* units.Acceleration("1 mm/s²"), in mm/s²
DEFAULT_ACCELERATION == 1

\* accelerations a caller writes, in mm/s²
AccelInputs == {0, 1, 250}

\* a getter that returns the acceleration last written to the axis
AccelerationValue_Stored(a) ==
  IF accelWrite # <<>> /\ accelWrite[1] = a THEN accelWrite[2]
  ELSE DEFAULT_ACCELERATION

\* acceleration (getter): return units.Acceleration("1 mm/s²")
AccelerationValue(a) == DEFAULT_ACCELERATION

AxAcceleration ==
  /\ pc = "acceleration"
  /\ Return("none", <<AccelerationValue(call.axis)>>)
  /\ UNCHANGED <<call, drvVars, blk, elapsed, objVars, devVars, chan,
                 cntVars, histVars>>

\* acceleration (setter): pass
AxSetAcceleration ==
  /\ pc = "set_acceleration"
  /\ accelWrite' = <<call.axis, call.arg>>
  /\ Return("none", <<>>)
  /\ UNCHANGED <<call, drvVars, blk, elapsed, objVars, devMoving, devPos,
                 devSpeed, devLim, resources, conn, probe, thr, wire, rxq,
                 chan, cntVars, histVars>>

\* axis.acceleration
CallAcceleration(a) ==
  /\ constructed
  /\ Begin(Call("acceleration", a, 0, FALSE), "acceleration",
           <<"top_done">>, {}, NoArgs)
  /\ UNCHANGED <<constructed, cfgLimits, limCache, devVars>>

\* axis.acceleration = v
CallSetAcceleration(a, v) ==
  /\ constructed
  /\ Begin(Call("set_acceleration", a, v, FALSE), "set_acceleration",
           <<"top_done">>, {}, NoArgs)
  /\ UNCHANGED <<constructed, cfgLimits, limCache, devVars>>

\* ------------------------------------------------------------------------
\* MS2000Stage: construction
\* ------------------------------------------------------------------------

\* ASILinearMotor.__init__ of axis ctorIdx: self._prev_position = self.position
CtorAxis ==
  /\ pc = "ctor_axis"
  /\ drvSel' = Axes
  /\ Invoke("position", "ctor_axis_ret")
  /\ UNCHANGED <<call, drvArgs, drvRel, blk, elapsed, objVars, devVars,
                 chan, cntVars, histVars>>

CtorAxisRet ==
  /\ pc = "ctor_axis_ret"
  /\ IF exc # "none" THEN /\ Return(exc, <<>>)
                          /\ UNCHANGED ctorIdx
     ELSE IF ctorIdx < 3 THEN /\ ctorIdx' = ctorIdx + 1
                              /\ Goto("ctor_axis")
     ELSE /\ ctorIdx' = 1
          /\ Goto("ctor_homed")
  /\ UNCHANGED <<call, drvVars, blk, elapsed, constructed, cfgLimits,
                 limCache, devVars, chan, cntVars, histVars>>

\* MS2000Stage.__init__: `if not self._<axis>_axis.homed`, which reads position
CtorHomed ==
  /\ pc = "ctor_homed"
  /\ drvSel' = Axes
  /\ Invoke("position", "ctor_homed_ret")
  /\ UNCHANGED <<call, drvArgs, drvRel, blk, elapsed, objVars, devVars,
                 chan, cntVars, histVars>>

\* MS2000Stage.__init__: an error of a home() call leaves the constructor
CtorPropagates(e) == e # "none"

\* the next axis of the auto-homing sequence, or the end of __init__
CtorNext ==
  IF ctorIdx < 3 THEN /\ ctorIdx' = ctorIdx + 1
                      /\ Goto("ctor_homed")
  ELSE /\ Return("none", <<>>)
       /\ UNCHANGED ctorIdx

CtorHomedRet ==
  /\ pc = "ctor_homed_ret"
  /\ IF exc # "none" THEN /\ Return(exc, <<>>)
                          /\ UNCHANGED <<ctorIdx, blk>>
     ELSE IF Homed(retval[ctorIdx]) THEN /\ CtorNext
                                         /\ UNCHANGED blk
     ELSE /\ blk' = FALSE
          /\ Invoke("home", "ctor_home_ret")
          /\ UNCHANGED ctorIdx
  /\ UNCHANGED <<call, drvVars, elapsed, constructed, cfgLimits,
                 limCache, devVars, chan, cntVars, histVars>>

CtorHomeRet ==
  /\ pc = "ctor_home_ret"
  /\ IF CtorPropagates(exc) THEN /\ Return(exc, <<>>)
                                 /\ UNCHANGED ctorIdx
     ELSE CtorNext
  /\ UNCHANGED <<call, drvVars, blk, elapsed, constructed, cfgLimits,
                 limCache, devVars, chan, cntVars, histVars>>

\* ------------------------------------------------------------------------
\* Connection: MS2000.__init__, MS2000Stage.__init__ and close
\* ------------------------------------------------------------------------

\* what a serial resource does when probed: "locked" cannot be opened,
\* "mute" opens and does not answer WHO, "other" answers with another
\* instrument's identity, "asi" answers with an identity naming ASI-MS2000
ResourceKinds == {"locked", "mute", "other", "asi"}

\* rm.open_resource(resource) returns
Opens(k) == k # "locked"
\* device.query("WHO") returns
Answers(k) == k \in {"other", "asi"}
\* "ASI-MS2000" in self.stage.query("WHO")
IsModel(k) == k = "asi"
\* the probe loop's test of idn: `if True:`
ProbeAccepts(k) == TRUE

NoConn == [open |-> FALSE, attr |-> FALSE, res |-> 0, closes |-> 0]
NoProbe == [idx |-> 1, idn |-> FALSE]

\* MS2000.__init__: if resourceName is None ... else: if resourceName in
\* rm.list_resources() ... else: raise ValueError
ConnStart ==
  /\ pc = "connect"
  /\ IF call.arg = 0
       THEN /\ probe' = NoProbe
            /\ Goto("probe")
     ELSE IF call.arg \in 1..Len(resources)
       THEN /\ Goto("open_named")
            /\ UNCHANGED probe
       ELSE /\ Return("AddressNotFound", <<>>)
            /\ UNCHANGED probe
  /\ UNCHANGED <<call, drvVars, blk, elapsed, objVars, devMoving, devPos,
                 devSpeed, devLim, resources, conn, thr, wire, rxq, accelWrite,
                 chan,
                 cntVars, histVars>>

\* MS2000.__init__: one round of `for resource in rm.list_resources()`, or
\* the end of the loop
ConnProbe ==
  /\ pc = "probe"
  /\ IF probe.idx > Len(resources)
       THEN /\ Return(IF probe.idn THEN "NotFound" ELSE "Unbound", <<>>)
            /\ UNCHANGED <<probe, conn>>
     ELSE IF ~Opens(resources[probe.idx]) \/ ~Answers(resources[probe.idx])
       THEN /\ probe' = [probe EXCEPT !.idx = @ + 1]
            /\ UNCHANGED <<ctlVars, conn>>
     ELSE IF ProbeAccepts(resources[probe.idx])
       THEN /\ probe' = [probe EXCEPT !.idn = TRUE]
            /\ conn' = [conn EXCEPT !.open = TRUE, !.res = probe.idx]
            /\ Return("none", <<>>)
       ELSE /\ probe' = [idx |-> probe.idx + 1, idn |-> TRUE]
            /\ UNCHANGED <<ctlVars, conn>>
  /\ UNCHANGED <<call, drvVars, blk, elapsed, objVars, devMoving, devPos,
                 devSpeed, devLim, resources, thr, wire, rxq, accelWrite,
                 chan,
                 cntVars, histVars>>

\* MS2000.__init__ with a resource name that is listed
ConnNamed ==
  /\ pc = "open_named"
  /\ IF ~Opens(resources[call.arg])
       THEN /\ Return("TransportError", <<>>)
            /\ UNCHANGED conn
       ELSE /\ conn' = [conn EXCEPT !.open = TRUE, !.res = call.arg]
            /\ IF ~Answers(resources[call.arg]) THEN Return("TransportError", <<>>)
               ELSE IF ~IsModel(resources[call.arg]) THEN Return("Mismatch", <<>>)
               ELSE Return("none", <<>>)
  /\ UNCHANGED <<call, drvVars, blk, elapsed, objVars, devMoving, devPos,
                 devSpeed, devLim, resources, probe, thr, wire, rxq, accelWrite,
                 chan,
                 cntVars, histVars>>

\* MS2000Stage.__init__: self._stage = MS2000(...)
ConnRet ==
  /\ pc = "connect_ret"
  /\ conn' = [conn EXCEPT !.attr = (exc = "none")]
  /\ Return(exc, <<>>)
  /\ UNCHANGED <<call, drvVars, blk, elapsed, objVars, devMoving, devPos,
                 devSpeed, devLim, resources, probe, thr, wire, rxq, accelWrite,
                 chan,
                 cntVars, histVars>>

\* a close of the session that fails on a session already closed
SessionClose_Strict(open) == IF open THEN "none" ELSE "TransportError"

\* self.stage.close(): pyvisa's Resource.close ends the session; on a
\* session that is already closed it does nothing and raises nothing
SessionClose(open) == "none"

\* MS2000Stage.close: if hasattr(self, '_stage'): self._stage.close()
StageClose ==
  /\ pc = "close"
  /\ IF conn.attr
       THEN /\ conn' = [conn EXCEPT !.open = FALSE, !.closes = @ + 1]
            /\ Return(SessionClose(conn.open), <<>>)
       ELSE /\ Return("none", <<>>)
            /\ UNCHANGED conn
  /\ UNCHANGED <<call, drvVars, blk, elapsed, objVars, devMoving, devPos,
                 devSpeed, devLim, resources, probe, thr, wire, rxq, accelWrite,
                 chan,
                 cntVars, histVars>>

\* ------------------------------------------------------------------------
\* Callers that share the driver.  query() is a write followed by a read of
\* the next line in the input buffer; the driver holds no lock, so the
\* writes and reads of two callers interleave freely.
\* ------------------------------------------------------------------------

\* driver operations the callers run
ThreadOps == {"status", "position", "move", "speed"}

\* the first command an operation writes: move and speed start with their
\* STATUS pre-check
FirstCmd(o) == IF o = "position" THEN "WHERE" ELSE "STATUS"
\* the command the pre-check guards
GuardedCmd(o) == IF o = "move" THEN "MOVE" ELSE "SPEED"

Event(t, kind, cmd) == [t |-> t, kind |-> kind, cmd |-> cmd]

Log(e) ==
  wire' = IF Len(wire) < WireWindow THEN Append(wire, e)
          ELSE Append(Tail(wire), e)

\* a caller enters a driver operation
ThrCall(t, o) ==
  /\ thr[t].pc = "idle"
  /\ thr' = [thr EXCEPT ![t] = [op |-> o, pc |-> "write"]]
  /\ UNCHANGED <<ctlVars, call, drvVars, blk, elapsed, objVars, devMoving,
                 devPos, devSpeed, devLim, resources, conn, probe, wire, rxq,
                 accelWrite, chan, cntVars, histVars>>

\* the write half of self.stage.query(...): the controller takes the
\* command and puts its one-line reply on the line
ThrWrite(t) ==
  /\ thr[t].pc \in {"write", "write_cmd"}
  /\ LET cmd == IF thr[t].pc = "write" THEN FirstCmd(thr[t].op)
                ELSE GuardedCmd(thr[t].op)
     IN  /\ Log(Event(t, "w", cmd))
         /\ rxq' = Append(rxq, cmd = "STATUS" /\ StatusReply)
         /\ devMoving' = (devMoving \/ cmd = "MOVE")
  /\ thr' = [thr EXCEPT ![t].pc = IF @ = "write" THEN "read" ELSE "read_cmd"]
  /\ UNCHANGED <<ctlVars, call, drvVars, blk, elapsed, objVars,
                 devPos, devSpeed, devLim, resources, conn, probe,
                 accelWrite, chan, cntVars, histVars>>

\* the read half of self.stage.query(...): the next line of the input
\* buffer, whichever command it answers; after the pre-check of move or
\* speed, `if not self.status(): raise RuntimeError`
ThrRead(t) ==
  /\ thr[t].pc \in {"read", "read_cmd"}
  /\ rxq # <<>>
  /\ Log(Event(t, "r", IF thr[t].pc = "read" THEN FirstCmd(thr[t].op)
                       ELSE GuardedCmd(thr[t].op)))
  /\ rxq' = Tail(rxq)
  /\ thr' = [thr EXCEPT ![t] =
               IF thr[t].pc = "read" /\ thr[t].op \in {"move", "speed"}
                    /\ ~BusyRejects(Head(rxq))
                 THEN [op |-> thr[t].op, pc |-> "write_cmd"]
                 ELSE IdleThread]
  /\ UNCHANGED <<ctlVars, call, drvVars, blk, elapsed, objVars, devMoving,
                 devPos, devSpeed, devLim, resources, conn, probe,
                 accelWrite, chan, cntVars, histVars>>

\* ------------------------------------------------------------------------
\* Calls
\* ------------------------------------------------------------------------

\* MS2000Stage(resource_name=n) up to the connection; n = 0 stands for
\* None, i for the name of the i-th resource listed, and a larger number
\* for a name that is not listed
CallConnect(n) ==
  /\ ~conn.attr
  /\ Begin(Call("connect", "x", n, FALSE), "connect",
           <<"connect_ret", "top_done">>, {}, NoArgs)
  /\ UNCHANGED <<constructed, cfgLimits, limCache, devVars>>

\* stage.close()
CallClose ==
  /\ conn.closes < MaxCloses
  /\ Begin(Call("close", "x", 0, FALSE), "close", <<"top_done">>, {}, NoArgs)
  /\ UNCHANGED <<constructed, cfgLimits, limCache, devVars>>

\* limits in the configuration: the same choice for the three axes
Configs == {[a \in Axes |-> NoLimits], [a \in Axes |-> Range(CfgMin, CfgMax)]}

\* MS2000Stage(x_config, y_config, z_config)
CallCtor(cfg) ==
  /\ ~constructed
  /\ Begin(Call("ctor", "x", 0, FALSE), "ctor_axis", <<"top_done">>, {}, NoArgs)
  /\ cfgLimits' = cfg
  /\ limCache' = [a \in Axes |-> NoLimits]
  /\ UNCHANGED <<constructed, devVars>>

\* axis.move_to(position, blocking)
CallMoveTo(a, t, b) ==
  /\ constructed
  /\ Begin(Call("move_to", a, t, b), "plim", <<"mt_check", "top_done">>, {}, NoArgs)
  /\ UNCHANGED <<constructed, cfgLimits, limCache, devVars>>

\* axis.home(blocking)
CallHome(a, b) ==
  /\ constructed
  /\ Begin(Call("home", a, 0, b), "home", <<"top_done">>, {}, NoArgs)
  /\ UNCHANGED <<constructed, cfgLimits, limCache, devVars>>

\* axis.stop(): position(x=True, y=True, z=True) comes first
CallStop(a) ==
  /\ constructed
  /\ Begin(Call("stop", a, 0, FALSE), "position", <<"stop_pos1", "top_done">>,
           Axes, NoArgs)
  /\ UNCHANGED <<constructed, cfgLimits, limCache, devVars>>

\* axis.move_velocity(velocity); typed: the argument is a units.Velocity
CallMoveVelocity(a, v, typed) ==
  /\ constructed
  /\ Begin([Call("move_velocity", a, v, FALSE) EXCEPT !.typed = typed],
           "move_velocity", <<"top_done">>, {}, NoArgs)
  /\ UNCHANGED <<constructed, cfgLimits, limCache, devVars>>

\* axis.moving
CallMoving(a) ==
  /\ constructed
  /\ Begin(Call("moving", a, 0, FALSE), "moving", <<"top_done">>, {}, NoArgs)
  /\ UNCHANGED <<constructed, cfgLimits, limCache, devVars>>

\* stage.position(x, y, z) on the driver
CallPosition(sel) ==
  /\ Begin([Call("position", "x", 0, FALSE) EXCEPT !.sel = sel],
           "position", <<"top_done">>, sel, NoArgs)
  /\ UNCHANGED <<constructed, cfgLimits, limCache, devVars>>

\* speeds a caller passes to the driver's speed (mm/s)
SpeedArgs == {NoArgs, [a \in {"x"} |-> 5], [a \in {"y"} |-> 0]}

\* a call of the driver; nn: the arguments given that are not numbers
DrvCall(o, sel, nn) == [Call(o, "x", 0, FALSE) EXCEPT !.sel = sel, !.nonnum = nn]

\* stage.speed(x, y, z) on the driver
CallSpeed(args, nn) ==
  /\ Begin(DrvCall("speed", {}, nn), "speed", <<"top_done">>, {}, args)
  /\ UNCHANGED <<constructed, cfgLimits, limCache, devVars>>

\* coordinates a caller passes to the driver's move; a value that is not a
\* number stands as 1 in the arguments and is named in the second component
MoveArgs == {<<NoArgs, {}>>,
             <<[a \in {"x"} |-> 1000], {}>>,
             <<[a \in {"x", "z"} |-> 1], {"z"}>>}

\* stage.move(x, y, z) on the driver
CallMove(args, nn) ==
  /\ Begin(DrvCall("move", {}, nn), "move", <<"top_done">>, {}, args)
  /\ UNCHANGED <<constructed, cfgLimits, limCache, devVars>>

\* stage.status() on the driver
CallStatus ==
  /\ Begin(DrvCall("status", {}, {}), "status", <<"top_done">>, {}, NoArgs)
  /\ UNCHANGED <<constructed, cfgLimits, limCache, devVars>>

\* stage.limits(x, y, z) on the driver
CallLimits(sel) ==
  /\ Begin(DrvCall("limits", sel, {}), "limits", <<"top_done">>, sel, NoArgs)
  /\ UNCHANGED <<constructed, cfgLimits, limCache, devVars>>

\* stage.getSpeed(x, y, z) on the driver
CallGetSpeed(sel) ==
  /\ Begin(DrvCall("get_speed", sel, {}), "get_speed", <<"top_done">>, sel, NoArgs)
  /\ UNCHANGED <<constructed, cfgLimits, limCache, devVars>>

\* a bound a caller passes to setLimit: None, 0, the number v, or a value
\* that is not a number (which stands as 1 in the arguments)
Bound(given, val, num) == [given |-> given, val |-> val, num |-> num]
BoundInputs(v) == {Bound(FALSE, 0, TRUE), Bound(TRUE, 0, TRUE),
                   Bound(TRUE, v, TRUE), Bound(TRUE, 1, FALSE)}
LowerInputs == BoundInputs(0 - 5)
UpperInputs == BoundInputs(5)
\* axis names a caller passes to setLimit
NameInputs == {"X", "Q"}

\* stage.setLimit(axis, lower, upper) on the driver
CallSetLimit(n, lo, up) ==
  LET keys == {k \in {"lower", "upper"} :
                 (k = "lower" /\ lo.given) \/ (k = "upper" /\ up.given)}
      args == [k \in keys |-> IF k = "lower" THEN lo.val ELSE up.val]
      nn == {k \in keys : ~(IF k = "lower" THEN lo.num ELSE up.num)}
  IN  /\ Begin([DrvCall("set_limit", {}, nn) EXCEPT !.name = n],
               "set_limit", <<"top_done">>, {}, args)
      /\ UNCHANGED <<constructed, cfgLimits, limCache, devVars>>

\* speeds a caller writes to max_velocity (mm/s)
SpeedInputs == {0, 6}

\* axis.max_velocity
CallMaxVelocity(a) ==
  /\ constructed
  /\ Begin(Call("max_velocity", a, 0, FALSE), "max_velocity", <<"top_done">>,
           {}, NoArgs)
  /\ UNCHANGED <<constructed, cfgLimits, limCache, devVars>>

\* axis.max_velocity = v
CallSetMaxVelocity(a, v) ==
  /\ constructed
  /\ Begin(Call("set_max_velocity", a, v, FALSE), "set_max_velocity",
           <<"top_done">>, {}, NoArgs)
  /\ UNCHANGED <<constructed, cfgLimits, limCache, devVars>>

\* axis.position_limits
CallPositionLimits(a) ==
  /\ constructed
  /\ Begin(Call("position_limits", a, 0, FALSE), "plim", <<"top_done">>,
           {}, NoArgs)
  /\ UNCHANGED <<constructed, cfgLimits, limCache, devVars>>

\* ------------------------------------------------------------------------
\* Specifications
\* ------------------------------------------------------------------------

InitCommon ==
  /\ pc = "idle"
  /\ stack = <<>>
  /\ exc = "none"
  /\ retval = <<>>
  /\ call = NoCall
  /\ drvSel = {}
  /\ drvArgs = NoArgs
  /\ drvRel = FALSE
  /\ blk = FALSE
  /\ elapsed = 0
  /\ ctorIdx = 1
  /\ limCache = [a \in Axes |-> NoLimits]
  /\ devMoving = FALSE
  /\ devSpeed = DevSpeeds
  /\ devLim = [a \in Axes |-> <<DevLow, DevUp>>]
  /\ chan = <<>>
  /\ nWhere = 0 /\ nStatus = 0 /\ nCmd = 0 /\ nLim = 0 /\ nBad = 0
  /\ nSpd = 0
  /\ statusHist = <<>> /\ sent = <<>>
  /\ hReads = <<>> /\ hAttempts = <<>>
  /\ movingAtCall = FALSE
  /\ limKnownAtCall = FALSE
  /\ probe = NoProbe
  /\ thr = [t \in Threads |-> IdleThread]
  /\ wire = <<>>
  /\ rxq = <<>>
  /\ accelWrite = <<>>

\* the driver is connected to the controller, the first resource listed
Connected ==
  /\ resources = <<"asi">>
  /\ conn = [open |-> TRUE, attr |-> TRUE, res |-> 1, closes |-> 0]

\* the driver is connected, the stage object is not yet constructed
Init ==
  /\ InitCommon
  /\ Connected
  /\ constructed = FALSE
  /\ cfgLimits = [a \in Axes |-> NoLimits]
  /\ devPos \in [Axes -> PosValues]

Driver == DrvPosition \/ DrvMove \/ DrvMoveSend \/ DrvSpeed \/ DrvSpeedSend
          \/ DrvLimits \/ DrvLimitsUp

Facade == Plim \/ PlimStore \/ MtCheck \/ MtAfter \/ AxMoving \/ MvCheck
          \/ StopPos1 \/ StopMove1 \/ StopPos2 \/ StopMove2 \/ AxHome \/ HomeAfter

Ctor == CtorAxis \/ CtorAxisRet \/ CtorHomed \/ CtorHomedRet \/ CtorHomeRet

Device == DevSettle \/ \E a \in Axes : DevDrift(a)

Calls ==
  \/ \E cfg \in Configs : CallCtor(cfg)
  \/ \E a \in Axes, t \in EngTargets : CallMoveTo(a, t, FALSE)
  \/ \E a \in Axes : CallHome(a, FALSE)
  \/ \E a \in Axes : CallStop(a)
  \/ \E a \in Axes, v \in Velocities : CallMoveVelocity(a, v, TRUE)
  \/ \E a \in Axes : CallMoveVelocity(a, 1, FALSE)
  \/ \E a \in Axes : CallMoving(a)
  \/ \E sel \in SUBSET Axes : CallPosition(sel)
  \/ \E args \in SpeedArgs : CallSpeed(args, {})

\* A session of calls that return without waiting for the motion to end
Next == Calls \/ Driver \/ Facade \/ Ctor \/ TopDone \/ Device

Spec == Init /\ [][Next]_vars

\* the stage object has been constructed; homing it started may be under way
TimedInit ==
  /\ InitCommon
  /\ Connected
  /\ constructed = TRUE
  /\ cfgLimits \in Configs
  /\ devPos = [a \in Axes |-> 0]

TimedCalls ==
  \/ \E a \in Axes, t \in EngTargets, b \in BOOLEAN : CallMoveTo(a, t, b)
  \/ \E a \in Axes, b \in BOOLEAN : CallHome(a, b)

\* A session of move_to and home calls, blocking or not, with the clock of
\* their poll loops.  None of these calls reads a position, so the
\* controller's positions are left out of the session.
TimedNext ==
  \/ TimedCalls
  \/ DrvMove \/ DrvMoveSend \/ DrvLimits \/ DrvLimitsUp
  \/ Plim \/ PlimStore \/ MtCheck \/ MtAfter \/ MtPoll
  \/ AxHome \/ HomeAfter \/ HomePoll
  \/ TopDone \/ DevSettle

TimedSpec == TimedInit /\ [][TimedNext]_vars

\* the stage object has been constructed and the controller is at rest at
\* its origin
ConfigInit ==
  /\ InitCommon
  /\ Connected
  /\ constructed = TRUE
  /\ cfgLimits \in Configs
  /\ devPos = [a \in Axes |-> 0]

ConfigCalls ==
  \/ CallStatus
  \/ \E sel \in SUBSET Axes : CallLimits(sel)
  \/ \E sel \in SUBSET Axes : CallGetSpeed(sel)
  \/ \E n \in NameInputs, lo \in LowerInputs, up \in UpperInputs :
       CallSetLimit(n, lo, up)
  \/ \E sel \in SUBSET Axes : CallPosition(sel)
  \/ \E m \in MoveArgs : CallMove(m[1], m[2])
  \/ \E args \in SpeedArgs : CallSpeed(args, {})
  \/ CallSpeed([a \in {"y"} |-> 1], {"y"})
  \/ \E a \in Axes : CallPositionLimits(a)
  \/ \E a \in Axes, t \in EngTargets : CallMoveTo(a, t, FALSE)

\* A session of calls that set and read the travel limits, on the driver
\* and on the axes, mixed with the driver's other calls that take arguments
\* and with moves that return at once.  No call of the session reads a
\* position, so the controller's positions are left out.
ConfigNext ==
  \/ ConfigCalls
  \/ DrvStatus \/ DrvPosition \/ DrvMove \/ DrvMoveSend \/ DrvSpeed \/ DrvSpeedSend
  \/ DrvLimits \/ DrvLimitsUp \/ DrvSetLimit \/ DrvSetLimitLow \/ DrvSetLimitUp
  \/ DrvGetSpeed
  \/ Plim \/ PlimStore \/ MtCheck \/ MtAfter
  \/ TopDone \/ DevSettle

ConfigSpec == ConfigInit /\ [][ConfigNext]_vars

SpeedCalls ==
  \/ CallStatus
  \/ \E a \in Axes : CallMoving(a)
  \/ \E sel \in SUBSET Axes : CallGetSpeed(sel)
  \/ \E args \in SpeedArgs : CallSpeed(args, {})
  \/ \E a \in Axes : CallMaxVelocity(a)
  \/ \E a \in Axes, v \in SpeedInputs : CallSetMaxVelocity(a, v)
  \/ \E a \in Axes, v \in Velocities : CallMoveVelocity(a, v, TRUE)
  \/ \E a \in Axes : CallAcceleration(a)
  \/ \E a \in Axes, v \in AccelInputs : CallSetAcceleration(a, v)

\* A session of calls that read and set the speeds, on the driver and on the
\* axes, mixed with status reads and with jogs that make the controller busy.
SpeedNext ==
  \/ SpeedCalls
  \/ DrvStatus \/ AxMoving \/ DrvGetSpeed \/ DrvSpeed \/ DrvSpeedSend
  \/ AxMaxVelocity \/ AxMaxVelocityRet \/ AxSetMaxVelocity
  \/ AxAcceleration \/ AxSetAcceleration
  \/ MvCheck \/ DrvMove \/ DrvMoveSend
  \/ TopDone \/ DevSettle

SpeedSpec == ConfigInit /\ [][SpeedNext]_vars

\* lists of at most MaxResources resources
ResourceLists == UNION {[1..n -> ResourceKinds] : n \in 0..MaxResources}

\* no stage object yet; the host lists some serial resources
ConnInit ==
  /\ InitCommon
  /\ constructed = FALSE
  /\ cfgLimits = [a \in Axes |-> NoLimits]
  /\ devPos = [a \in Axes |-> 0]
  /\ resources \in ResourceLists
  /\ conn = NoConn

\* The life of the connection: it is made when the stage object is
\* constructed and ended by close()
ConnNext ==
  \/ \E n \in 0..(MaxResources + 1) : CallConnect(n)
  \/ CallClose
  \/ ConnStart \/ ConnProbe \/ ConnNamed \/ ConnRet \/ StageClose
  \/ TopDone

ConnSpec == ConnInit /\ [][ConnNext]_vars

\* the driver is connected and the controller is at rest
SharedInit ==
  /\ InitCommon
  /\ Connected
  /\ constructed = FALSE
  /\ cfgLimits = [a \in Axes |-> NoLimits]
  /\ devPos = [a \in Axes |-> 0]

\* Two callers run driver operations on the one driver object at the same
\* time
SharedNext ==
  \/ \E t \in Threads, o \in ThreadOps : ThrCall(t, o)
  \/ \E t \in Threads : ThrWrite(t)
  \/ \E t \in Threads : ThrRead(t)
  \/ DevSettle

SharedSpec == SharedInit /\ [][SharedNext]_vars

\* ------------------------------------------------------------------------
\* Conversions at the resolution where rounding acts
\* ------------------------------------------------------------------------

\* round(x, 3) keeps thousandths; a driver argument is given here in tenths
\* of a thousandth of its unit, so that it can carry a fourth decimal
ThousandthsPerUnit == 1000
FinePerThousandth == 10
NativeFinePerUnit == ThousandthsPerUnit * FinePerThousandth

\* an engineering value is given here in EngFraction-ths of an engineering
\* step, finer than a thousandth of a native increment
EngFraction == 10000
EngFinePerNative == EngPerNative * EngFraction

\* the nearest quotients of num / den: round() decides a tie by the binary
\* value of the float, which may lie on either side of the decimal tie
RoundDiv(num, den) ==
  LET q == num \div den
      r == num % den
  IN  IF 2 * r < den THEN {q}
      ELSE IF 2 * r > den THEN {q + 1}
      ELSE {q, q + 1}

\* move_to: round(position * 10e6, 3), an engineering value to native
MtNative(e) ==
  {m * FinePerThousandth :
     m \in RoundDiv(e * ThousandthsPerUnit, EngFinePerNative)}

\* MS2000.move: f" {axis}={round(coord,3)}"
MoveToken(v) == {m * FinePerThousandth : m \in RoundDiv(v, FinePerThousandth)}

\* MS2000.speed: f" {axis}={coord}", the value as it was given
SpeedToken(v) == v

\* a read that divides by the 10000 of the conversion factor left in comments
PositionOf_PerMm(n) == n * (EngFinePerNative \div NativeFinePerUnit) * 1000

\* position: units.Position(pos_tenths_um / 10e6), native to engineering
PositionOf(n) == n * (EngFinePerNative \div NativeFinePerUnit)

\* engineering positions around the ties of the rounding, in fine steps
EngFineInputs ==
  {0, 1, 49, 50, 51, 99, 100, 149, 150, 151, 250, 99999, 100000, 100050,
   123456, 1000000, 0 - 1, 0 - 49, 0 - 50, 0 - 51, 0 - 100, 0 - 150,
   0 - 250, 0 - 123456, 0 - 1000000}

\* driver arguments with and without a fourth decimal, in fine units
NativeFineInputs ==
  {0, 4, 5, 6, 10, 15, 25, 12345, 12340, 100000, 0 - 5, 0 - 12, 0 - 15,
   0 - 12345}

\* the instructions that carry a value
ValueCmds == {"MOVE", "MOVREL", "SPEED"}

\* axis.move_to(e) and then axis.position, for the value conversions alone:
\* the controller reports the coordinate it was sent
CallConvert(a, e) ==
  /\ Begin(Call("convert", a, e, FALSE), "mt_native", <<"top_done">>,
           {}, NoArgs)
  /\ UNCHANGED <<constructed, cfgLimits, limCache, devVars>>

\* MS2000.move(a=v, relative=...) and MS2000.speed(a=v), for the value the
\* instruction carries
CallInstruction(cmd, a, v) ==
  /\ Begin(Call(cmd, a, v, FALSE),
           IF cmd = "SPEED" THEN "sp_token" ELSE "mv_token",
           <<"top_done">>, {}, [b \in {a} |-> v])
  /\ UNCHANGED <<constructed, cfgLimits, limCache, devVars>>

\* move_to: pos_tenths_um = round(position * 10e6, 3)
\*          move_kwargs = {self.axis: pos_tenths_um}
ConvNative ==
  /\ pc = "mt_native"
  /\ \E n \in MtNative(call.arg) : drvArgs' = [a \in {call.axis} |-> n]
  /\ Goto("mv_token")
  /\ UNCHANGED <<call, drvSel, drvRel, blk, elapsed, objVars, devVars,
                 chan, cntVars, histVars>>

\* MS2000.move: instruction += f" {axis}={round(coord,3)}"
ConvMoveToken ==
  /\ pc = "mv_token"
  /\ \E t \in MoveToken(drvArgs[call.axis]) :
       IF call.op = "convert"
         THEN /\ pc' = "ax_position"
              /\ retval' = <<t>>
              /\ UNCHANGED <<stack, exc>>
         ELSE Return("none", <<t>>)
  /\ UNCHANGED <<call, drvVars, blk, elapsed, objVars, devVars, chan,
                 cntVars, histVars>>

\* MS2000.speed: instruction += f" {axis}={coord}"
ConvSpeedToken ==
  /\ pc = "sp_token"
  /\ Return("none", <<SpeedToken(drvArgs[call.axis])>>)
  /\ UNCHANGED <<call, drvVars, blk, elapsed, objVars, devVars, chan,
                 cntVars, histVars>>

\* position: units.Position(pos_tenths_um / 10e6) of the coordinate read
ConvPosition ==
  /\ pc = "ax_position"
  /\ Return("none", <<retval[1], PositionOf(retval[1])>>)
  /\ UNCHANGED <<call, drvVars, blk, elapsed, objVars, devVars, chan,
                 cntVars, histVars>>

\* Values pass through the conversions of move_to, move, speed and position
ConvNext ==
  \/ \E a \in Axes, e \in EngFineInputs : CallConvert(a, e)
  \/ \E cmd \in ValueCmds, a \in Axes, v \in NativeFineInputs :
       CallInstruction(cmd, a, v)
  \/ ConvNative \/ ConvMoveToken \/ ConvSpeedToken \/ ConvPosition
  \/ TopDone

ConvSpec == SharedInit /\ [][ConvNext]_vars

\* ------------------------------------------------------------------------
\* StageGUI: the standalone control panel over the driver
\* ------------------------------------------------------------------------

\* busy polls of one wait that the model follows before the controller
\* comes to rest
MaxGuiPolls == 3

\* stage_move_handler: x * 10000, mm to native
GUI_NATIVE_PER_MM == 10000

GuiModes == {"coordinate", "z", "xy"}
GuiOp(mode) == IF mode = "coordinate" THEN "gui_coordinate"
               ELSE IF mode = "z" THEN "gui_z" ELSE "gui_xy"
GuiMoveOps == {GuiOp(m) : m \in GuiModes}
GuiOps == GuiMoveOps \cup {"gui_home"}

\* the keyword arguments StageControl passes: the entries that hold a number
\* in mm, one z step, one x or y step in native units
GuiKwargs(mode) ==
  IF mode = "coordinate"
    THEN UNION {[S -> {1, 0 - 2}] : S \in SUBSET Axes}
  ELSE IF mode = "z" THEN [{"z"} -> {250, 0 - 250}]
  ELSE [{"x"} -> {250, 0 - 250}] \cup [{"y"} -> {250, 0 - 250}]

\* stage_move_handler(mode=..., x=..., y=..., z=...)
CallGuiMove(mode, kw) ==
  /\ Begin(Call(GuiOp(mode), "x", 0, FALSE), "gui_wait",
           <<"gui_ret", "top_done">>, {}, kw)
  /\ UNCHANGED <<constructed, cfgLimits, limCache, devVars>>

\* stage_home()
CallGuiHome ==
  /\ Begin(Call("gui_home", "x", 0, FALSE), "gui_wait",
           <<"gui_ret", "top_done">>, {}, NoArgs)
  /\ UNCHANGED <<constructed, cfgLimits, limCache, devVars>>

\* a handler that does not wait
GuiWaits_Never(busy) == FALSE

\* while not self.stage.status()
GuiWaits(busy) == ~Status(busy)

\* one round of `while not self.stage.status(): sleep(0.05)`
GuiWait ==
  /\ pc = "gui_wait"
  /\ nStatus < MaxGuiPolls \/ ~devMoving
  /\ Tx("STATUS", StatusReply)
  /\ NoteStatus(StatusReply)
  /\ IF GuiWaits(StatusReply) THEN UNCHANGED ctlVars
     ELSE Goto("gui_go")
  /\ UNCHANGED <<call, drvVars, blk, elapsed, objVars, devVars,
                 nWhere, nCmd, nLim, nBad, sent, nSpd, histVars>>

\* the coordinates a mode of stage_move_handler passes to move
GuiMoveArgs(op, kw) ==
  IF op = "gui_coordinate"
    THEN [a \in DOMAIN kw |-> kw[a] * GUI_NATIVE_PER_MM]
  ELSE IF op = "gui_z" THEN [a \in DOMAIN kw \cap {"z"} |-> kw[a]]
  ELSE [a \in DOMAIN kw \cap {"x", "y"} |-> kw[a]]

\* stage_move_handler: self.stage.move(..., relative=...) of the mode;
\* stage_home: self.stage.home()
GuiGo ==
  /\ pc = "gui_go"
  /\ drvArgs' = IF call.op = "gui_home" THEN HomeArgs
                ELSE GuiMoveArgs(call.op, drvArgs)
  /\ drvRel' = (call.op \in {"gui_z", "gui_xy"})
  /\ pc' = "move"
  /\ UNCHANGED <<stack, exc, retval>>
  /\ UNCHANGED <<call, drvSel, blk, elapsed, objVars, devVars, chan,
                 cntVars, histVars>>

\* except Exception as e: the error is shown, the handler returns
GuiRet ==
  /\ pc = "gui_ret"
  /\ Return("none", IF exc # "none" THEN <<exc>> ELSE <<>>)
  /\ UNCHANGED <<call, drvVars, blk, elapsed, objVars, devVars, chan,
                 cntVars, histVars>>

\* A session at the control panel: move and home requests, one handler at a
\* time, while the controller executes the moves
GuiNext ==
  \/ \E mode \in GuiModes : \E kw \in GuiKwargs(mode) : CallGuiMove(mode, kw)
  \/ CallGuiHome
  \/ GuiWait \/ GuiGo \/ GuiRet
  \/ DrvMove \/ DrvMoveSend
  \/ TopDone \/ DevSettle

GuiSpec == SharedInit /\ [][GuiNext]_vars

\* ------------------------------------------------------------------------
\* Properties
\* ------------------------------------------------------------------------

\* exchanges of the current call on the serial channel
IoCount == nWhere + nStatus + nCmd + nLim + nSpd

\* p lies outside [r.min, r.max]
Outside(r, p) == p < r.min \/ p > r.max

\* the target of the move_to that has ended lies outside the axis's limits
OutOfRangeMove ==
  /\ Done("move_to")
  /\ limCache[call.axis].set
  /\ Outside(limCache[call.axis], call.arg)

\* C1 as stated: a move_to whose target lies outside the axis's limits
\* fails with the out-of-range error, transmits no MOVE/MOVREL and makes no
\* exchange at all on the serial channel, also when the limits were neither
\* configured nor read before.
C1_NoIoBeforeOutOfRange ==
  OutOfRangeMove => /\ Raised("OutOfRange")
                    /\ nCmd = 0
                    /\ IoCount = 0

\* C1, amended: a move_to whose target lies outside the axis's limits fails
\* with the out-of-range error and transmits no MOVE/MOVREL, STATUS or WHERE;
\* the only exchanges it makes are the two limit queries (SETLOW, SETUP), and
\* those only when the limits were neither configured nor read before.
C1_OutOfRangeSendsNoMove ==
  OutOfRangeMove => /\ Raised("OutOfRange")
                    /\ nCmd = 0 /\ nStatus = 0 /\ nWhere = 0
                    /\ sent = <<>>
                    /\ nLim = (IF limKnownAtCall THEN 0 ELSE 2)

C1_Witness ==
  /\ OutOfRangeMove
  /\ Raised("OutOfRange")
  /\ ~limKnownAtCall
  /\ nLim = 2

IdleStatus(e) == e.cmd = "STATUS" /\ ~e.busy
BusyStatus(e) == e.cmd = "STATUS" /\ e.busy

\* C2: move and speed query STATUS before their command; when the reply is
\* busy they fail with the device-busy error and transmit no command, and a
\* MOVE, MOVREL or SPEED command is never the exchange that follows a busy
\* STATUS reply: it directly follows a STATUS reply that reported idle.
C2_BusyPrecheck ==
  /\ (Len(chan) >= 1 /\ LastTx.cmd \in MotionCmds)
        => (Len(chan) >= 2 /\ IdleStatus(PrevTx))
  /\ pc \in {"move_send", "speed_send"} => (Len(chan) >= 1 /\ IdleStatus(LastTx))
  /\ (pc = "top_done" /\ call.op \in {"move_to", "home", "move_velocity", "speed"})
        => /\ (nStatus >= 1 /\ statusHist[1])
                => (Raised("DeviceBusy") /\ nCmd = 0 /\ nStatus = 1)
           /\ nCmd > 0 => (nStatus >= 1 /\ ~statusHist[1])

C2_Witness ==
  /\ pc = "top_done"
  /\ call.op \in {"move_velocity", "speed"}
  /\ chan # <<>>
  /\ BusyStatus(LastTx)
  /\ Raised("DeviceBusy")
  /\ nCmd = 0

\* C3 as stated: a stop() called while the controller is in motion transmits
\* an absolute MOVE of its axis to the position it has read.
C3_StopTransmitsMove ==
  (Done("stop") /\ movingAtCall)
     => /\ nCmd >= 1
        /\ sent[Len(sent)].cmd = "MOVE"
        /\ sent[Len(sent)].args = [a \in {call.axis} |-> hReads[Len(hReads)]]

\* C4: stop() retries its move exactly once, after the fixed delay, when the
\* first move is rejected as busy; the retry carries the position read again
\* after the rejection; the busy error reaches the caller only if the retry
\* is rejected too; there is never a third attempt.
C4_StopRetriesOnce ==
  call.op = "stop" =>
    /\ Len(hAttempts) <= 2
    /\ Len(hReads) = Len(hAttempts)
    /\ \A i \in 1..Len(hAttempts) : hAttempts[i] = hReads[i]
    /\ Len(hAttempts) = 2 => (statusHist[1] /\ elapsed = STOP_RETRY_DELAY)
    /\ pc = "top_done" =>
         /\ (nStatus >= 1 /\ statusHist[1]) => (Len(hAttempts) = 2 /\ nStatus = 2)
         /\ Raised("DeviceBusy") <=> (nStatus = 2 /\ statusHist[1] /\ statusHist[2])
         /\ (nStatus = 2 /\ ~statusHist[2])
               => /\ Ok
                  /\ sent = <<[cmd |-> "MOVE",
                               args |-> [a \in {call.axis} |-> hReads[2]]]>>

C4_Witness ==
  /\ Done("stop")
  /\ Ok
  /\ Len(hAttempts) = 2
  /\ hReads[1] # hReads[2]
  /\ nCmd = 1

\* C5 as stated: one position() call sends at most two WHERE commands.
C5_AtMostTwoWhere ==
  call.op = "position" => nWhere <= 2

BlockingCall == call.op \in {"move_to", "home"} /\ call.blocking

\* a STATUS query of the poll loop has read not-moving: polls follow the
\* move command or a poll that read busy
PollReadIdle ==
  /\ Len(chan) >= 2
  /\ IdleStatus(LastTx)
  /\ PrevTx.cmd = "MOVE" \/ BusyStatus(PrevTx)

\* C6: in a blocking move_to or home, while the poll loop runs every poll so
\* far has read moving, and the poll that first reads not-moving is the last
\* exchange of the call, which then returns successfully.
C6_ReturnsAtFirstIdle ==
  BlockingCall =>
    /\ pc \in PollLabels => (chan # <<>> /\ (LastTx.cmd = "MOVE" \/ BusyStatus(LastTx)))
    /\ PollReadIdle => (pc = "top_done" /\ Ok)
    /\ (pc = "top_done" /\ Ok) => PollReadIdle

C6_Witness ==
  /\ Done("home")
  /\ call.blocking
  /\ Ok
  /\ PollReadIdle
  /\ nStatus >= 3

\* the timeout of the blocking call in progress
CallTimeout == IF call.op = "home" THEN HOME_TIMEOUT ELSE MOVE_TIMEOUT
CallTimeoutError == IF call.op = "home" THEN "HomeTimeout" ELSE "MoveTimeout"

\* C7: the poll loop of a blocking move_to or home is bounded: it never
\* sleeps once the elapsed time exceeds the timeout of the call, so it makes
\* at most timeout / period + 2 polls; a call whose polls all read moving
\* ends with the timeout error of its kind, raised when the elapsed time
\* exceeds the timeout and not before.
C7_PollLoopBounded ==
  BlockingCall =>
    /\ elapsed <= CallTimeout + POLLING_PERIOD
    /\ nStatus <= 1 + (CallTimeout \div POLLING_PERIOD) + 2
    /\ pc \in PollLabels => nStatus = 1 + (elapsed \div POLLING_PERIOD)
    /\ (pc = "top_done" /\ exc \in {"MoveTimeout", "HomeTimeout"})
          => /\ exc = CallTimeoutError
             /\ elapsed > CallTimeout
             /\ BusyStatus(LastTx)
    /\ (pc = "top_done" /\ chan # <<>> /\ BusyStatus(LastTx) /\ nStatus > 1)
          => (exc = CallTimeoutError /\ elapsed = CallTimeout + POLLING_PERIOD)

C7_Witness ==
  /\ Done("move_to")
  /\ call.blocking
  /\ Raised("MoveTimeout")
  /\ elapsed > MOVE_TIMEOUT

\* the STATUS replies of the call so far are those the script prescribes
FollowsScript(script) ==
  \A i \in 1..Len(statusHist) : i <= Len(script) => statusHist[i] = script[i]

InRangeBlockingMove ==
  /\ Done("move_to")
  /\ call.blocking
  /\ limCache[call.axis].set
  /\ ~Outside(limCache[call.axis], call.arg)

\* C8 as stated: with STATUS replies busy, busy, idle a blocking in-range
\* move_to succeeds after exactly 3 status queries.
C8_ThreeStatusQueries ==
  (InRangeBlockingMove /\ FollowsScript(<<TRUE, TRUE, FALSE>>))
     => (Ok /\ nStatus = 3)

\* C8, amended: with STATUS replies idle (the pre-check of the driver's
\* move), busy, busy, idle a blocking in-range move_to succeeds after exactly
\* 4 status queries, 1 pre-check and 3 polls.
C8_FourStatusQueries ==
  (InRangeBlockingMove /\ FollowsScript(<<FALSE, TRUE, TRUE, FALSE>>))
     => (Ok /\ nStatus = 4 /\ nCmd = 1)

C8_Witness ==
  /\ InRangeBlockingMove
  /\ statusHist = <<FALSE, TRUE, TRUE, FALSE>>
  /\ Ok
  /\ nStatus = 4

\* C9 as stated: the construction of the stage never ends with the
\* device-busy error of a startup home().
C9_CtorSwallowsHomingErrors ==
  Done("ctor") => ~Raised("DeviceBusy")

\* C10 as stated: position() returns one coordinate per axis selected, also
\* through the re-query; with no axis selected it fails with the
\* invalid-argument error and sends nothing.
C10_OneCoordPerAxis ==
  Done("position") =>
    IF call.sel = {} THEN Raised("InvalidArgument") /\ nWhere = 0
    ELSE Ok /\ Len(retval) = Cardinality(call.sel)

\* C11 as stated: on each of the axes x, y and z, reading max_velocity
\* returns the speed the controller reports for that axis, and a write of
\* max_velocity that succeeds has sent one SPEED command for that axis only.
C11_MaxVelocityPassThrough ==
  /\ Done("max_velocity") => (Ok /\ retval = <<devSpeed[call.axis]>>)
  /\ (Done("set_max_velocity") /\ Ok)
        => sent = <<[cmd |-> "SPEED", args |-> [a \in {call.axis} |-> call.arg]]>>

\* C12: a STATUS reply that contains the busy token makes status() return
\* false and moving read true; a reply without it makes status() return
\* true and moving read false.
C12_StatusPolarity ==
  /\ Done("status") => (Ok /\ chan # <<>> /\ LastTx.cmd = "STATUS"
                        /\ retval = <<IF LastTx.busy THEN FALSE ELSE TRUE>>)
  /\ Done("moving") => (Ok /\ chan # <<>> /\ LastTx.cmd = "STATUS"
                        /\ retval = <<IF LastTx.busy THEN TRUE ELSE FALSE>>)

C12_Witness ==
  /\ Done("moving")
  /\ chan # <<>>
  /\ LastTx.busy
  /\ retval = <<TRUE>>

\* the set commands setLimit owes for the bounds it was given
OwedLimitCmds ==
  LET one(key, cmd) ==
        IF key \in DOMAIN drvArgs
          THEN <<[cmd |-> cmd, args |-> [n \in {call.name} |-> drvArgs[key]]]>>
          ELSE <<>>
  IN  one("lower", "SETLOW") \o one("upper", "SETUP")

\* C13 as stated: setLimit on a valid axis with numeric bounds succeeds
\* whenever at least one bound is given, whatever its value (0 included),
\* and then sends one command per bound given, SETLOW for the lower and
\* SETUP for the upper; it fails only when both bounds are None.
C13_SetLimitOnePerBound ==
  (Done("set_limit") /\ call.name \in AxisNames /\ call.nonnum = {})
     => IF DOMAIN drvArgs = {}
          THEN Raised("InvalidArgument") /\ nCmd = 0
          ELSE Ok /\ sent = OwedLimitCmds

\* C14 as stated: a driver operation that fails on an argument error (no
\* axis given, a value that is not a number, an invalid axis name) has
\* written nothing to the serial channel.
C14_ArgumentErrorsBeforeIo ==
  (pc = "top_done"
     /\ call.op \in {"move", "speed", "set_limit", "position", "limits", "get_speed"}
     /\ exc \in {"InvalidArgument", "NotNumeric"})
     => (IoCount = 0 /\ chan = <<>>)

\* the calls that read position_limits
ReadsLimits == call.op \in {"move_to", "position_limits"}

C15_State ==
  /\ \A a \in Axes : (cfgLimits[a].set /\ limCache[a].set) => limCache[a] = cfgLimits[a]
  /\ ReadsLimits =>
       /\ nLim <= 2
       /\ (cfgLimits[call.axis].set \/ limKnownAtCall) => nLim = 0
  /\ Done("position_limits") => (Ok /\ limCache[call.axis].set)

C15_Step ==
  /\ \A a \in Axes : limCache[a].set => limCache'[a] = limCache[a]
  /\ (ReadsLimits /\ nLim' > nLim)
        => (~limCache[call.axis].set /\ ~cfgLimits[call.axis].set)

\* C15: position_limits is computed at most once per axis object: with
\* configured limits every read returns them and no limits query is sent;
\* otherwise the first read queries the controller (SETLOW?, SETUP?) and
\* every later read, whatever was called in between, returns the range
\* cached then without a query.
C15_LimitsComputedOnce == [][C15_Step]_vars /\ []C15_State

\* a read of position_limits returns the range cached before the
\* controller's limits were changed, without a query
C15_Witness ==
  /\ Done("position_limits")
  /\ limKnownAtCall
  /\ ~cfgLimits[call.axis].set
  /\ limCache[call.axis] # Range(ToEng(devLim[call.axis][1]), ToEng(devLim[call.axis][2]))
  /\ nLim = 0

\* C16: home() of any axis makes the driver's busy pre-check and then sends
\* one absolute MOVE with X=0 Y=0 Z=0, the three axes whatever the axis;
\* when the pre-check reads busy it fails with the device-busy error and
\* sends nothing.
C16_HomeMovesAllAxes ==
  call.op = "home" =>
    /\ Len(sent) <= 1
    /\ pc = "top_done" =>
         /\ nStatus >= 1
         /\ IF statusHist[1]
              THEN Raised("DeviceBusy") /\ sent = <<>> /\ nStatus = 1
              ELSE sent = <<[cmd |-> "MOVE",
                             args |-> [a \in {"x", "y", "z"} |-> 0]]>>

C16_Witness ==
  /\ Done("home")
  /\ call.axis = "y"
  /\ Ok
  /\ nCmd = 1
  /\ DOMAIN sent[1].args = Axes

Sign(v) == IF v > 0 THEN 1 ELSE IF v < 0 THEN 0 - 1 ELSE 0

\* the one relative move of this axis by d
JogOf(d) == <<[cmd |-> "MOVREL", args |-> [a \in {call.axis} |-> d]]>>

FirstOfModel ==
  IF \E i \in 1..Len(resources) : resources[i] = "asi"
    THEN CHOOSE i \in 1..Len(resources) :
           /\ resources[i] = "asi"
           /\ \A j \in 1..(i - 1) : resources[j] # "asi"
    ELSE 0

\* C18 as stated: with no resource name given, the connection selects the
\* first resource listed whose reply to the identity query contains the
\* expected model, skipping the resources that do not open, do not answer
\* or answer with another identity; when no resource matches it fails with
\* the device-not-found error.
C18_ProbeSelectsFirstModel ==
  (Done("connect") /\ call.arg = 0) =>
    IF FirstOfModel # 0
      THEN Ok /\ conn.open /\ conn.res = FirstOfModel
      ELSE Raised("NotFound")

C20_ChannelSerialized ==
  /\ \A i \in 1..(Len(wire) - 1) :
       ~(wire[i].kind = "w" /\ wire[i + 1].kind = "w")
  /\ \A t \in Threads :
       thr[t].pc = "write_cmd"
          => (wire # <<>> /\ wire[Len(wire)] = Event(t, "r", "STATUS"))


\* C21: converting an engineering position to native units as move_to does,
\* sending it, and converting the coordinate read back as position does,
\* gives a value within one native increment of the original
C21_RoundTripWithinIncrement ==
  Done("convert") =>
    /\ Ok
    /\ Len(retval) = 2
    /\ Abs(retval[2] - call.arg) <= EngFinePerNative

\* a position that is not a whole number of thousandths of a native
\* increment has made the round trip
C21_Witness ==
  /\ Done("convert")
  /\ Len(retval) = 2
  /\ retval[2] # call.arg
  /\ Abs(retval[2] - call.arg) <= EngFinePerNative

\* a value has at most three decimals
Rounded3(t) == t % FinePerThousandth = 0

\* C22: the value in a MOVE, MOVREL or SPEED set instruction has been
\* rounded to three decimal places
C22_ValuesRounded ==
  \A cmd \in ValueCmds :
    Done(cmd) => Len(retval) = 1 /\ Rounded3(retval[1])

\* a SPEED instruction carries a value with a fourth decimal
C22_SpeedUnrounded ==
  /\ Done("SPEED")
  /\ Len(retval) = 1
  /\ ~Rounded3(retval[1])


\* C23: a write of the acceleration property with any value raises nothing
\* and transmits nothing, and every read of the property, after a write as
\* before it, returns the one fixed default value.
C23_AccelerationWriteIgnored ==
  /\ Done("set_acceleration") =>
       Ok /\ IoCount = 0 /\ sent = <<>> /\ chan = <<>>
  /\ Done("acceleration") =>
       Ok /\ IoCount = 0 /\ retval = <<DEFAULT_ACCELERATION>>

\* a read of the axis whose acceleration was last written with another value
C23_Witness ==
  /\ Done("acceleration")
  /\ accelWrite # <<>>
  /\ accelWrite[1] = call.axis
  /\ accelWrite[2] # DEFAULT_ACCELERATION
  /\ retval = <<DEFAULT_ACCELERATION>>


TimeoutErrors == {"MoveTimeout", "HomeTimeout"}

\* a blocking call has ended with its timeout error: the one command of the
\* call is the move it started with, no position was read, and the last
\* exchange is the poll that read moving
C24_State ==
  (pc = "top_done" /\ exc \in TimeoutErrors) =>
    /\ call.op \in {"move_to", "home"}
    /\ call.blocking
    /\ nCmd = 1
    /\ Len(sent) = 1
    /\ sent[1].cmd = "MOVE"
    /\ nWhere = 0
    /\ nSpd = 0
    /\ chan # <<>>
    /\ LastTx = Exchange("STATUS", TRUE)

\* the step that raises the timeout error transmits no command and leaves
\* the controller moving
C24_Step ==
  (exc' \in TimeoutErrors /\ exc \notin TimeoutErrors) =>
    /\ devMoving
    /\ devMoving'
    /\ nCmd' = nCmd
    /\ sent' = sent
    /\ nWhere' = nWhere

\* C24: when a blocking move_to or home ends with the timeout error, no
\* stop and no other command is transmitted as part of the failure: the
\* move already sent is the only command of the call and the controller is
\* left in motion.
C24_TimeoutLeavesMotion == [][C24_Step]_vars /\ []C24_State

\* a blocking home has timed out with the controller still moving
C24_Witness ==
  /\ Done("home")
  /\ call.blocking
  /\ Raised("HomeTimeout")
  /\ nCmd = 1
  /\ devMoving


\* what move_velocity does with a negative velocity: after the driver's busy
\* pre-check, one relative move of this axis by the fixed distance in the
\* negative direction, or the device-busy error and no move
NegativeJog ==
  /\ nStatus = 1
  /\ IF statusHist[1]
       THEN Raised("DeviceBusy") /\ sent = <<>>
       ELSE Ok /\ sent = JogOf(0 - JOG_DISTANCE)

\* C25: move_velocity with a velocity of zero does not leave the axis at
\* rest: it does what it does for a negative velocity, the large relative
\* move in the negative direction.
C25_ZeroJogsNegative ==
  (Done("move_velocity") /\ call.typed) =>
    /\ call.arg < 0 => NegativeJog
    /\ call.arg = 0 => NegativeJog

\* a jog with velocity zero has sent the negative relative move
C25_Witness ==
  /\ Done("move_velocity")
  /\ call.typed
  /\ call.arg = 0
  /\ Ok
  /\ Len(sent) = 1
  /\ sent[1].cmd = "MOVREL"
  /\ sent[1].args[call.axis] = 0 - JOG_DISTANCE


\* the handler is past its wait
GuiPastWait == call.op \in GuiOps /\ pc \notin {"gui_wait", "idle"}

\* the command the handler's request stands for
GuiRequest ==
  IF call.op = "gui_home" THEN [cmd |-> "MOVE", args |-> [a \in Axes |-> 0]]
  ELSE [cmd |-> IF call.op = "gui_coordinate" THEN "MOVE" ELSE "MOVREL",
        args |-> drvArgs]

\* while the handler waits every poll has read busy; once it is past the
\* wait the poll before the move's own pre-check read idle; the handler ends
\* without an error, shows no device-busy error, and a request that names a
\* coordinate has been sent as one command
C26_State ==
  /\ (call.op \in GuiOps /\ pc = "gui_wait") =>
       /\ exc = "none"
       /\ \A i \in 1..Len(statusHist) : statusHist[i]
       /\ nCmd = 0
  /\ GuiPastWait =>
       /\ nStatus >= 1
       /\ \A i \in 1..Len(statusHist) :
            i < nStatus - (IF pc = "gui_go" THEN 0 ELSE 1) => statusHist[i]
  /\ (call.op \in GuiOps /\ pc = "gui_go") => LastTx = Exchange("STATUS", FALSE)
  /\ (call.op \in GuiOps /\ pc = "top_done") =>
       /\ Ok
       /\ retval # <<"DeviceBusy">>
       /\ IF NoCoord(drvArgs)
            THEN retval = <<"InvalidArgument">> /\ nCmd = 0
            ELSE /\ retval = <<>>
                 /\ sent = <<GuiRequest>>
                 /\ PrevTx = Exchange("STATUS", FALSE)

\* the wait ends only by a poll that reads idle, and it uses no clock
C26_Step ==
  (call.op \in GuiOps /\ pc = "gui_wait") =>
    /\ pc' # "gui_wait" => (pc' = "gui_go" /\ ~devMoving /\ exc' = "none")
    /\ (nStatus' # nStatus /\ devMoving) => pc' = "gui_wait"
    /\ elapsed' = elapsed

\* C26: stage_move_handler and stage_home poll the driver's status until it
\* reads idle before they call move or home, so a request made while the
\* stage is moving is sent once the stage is idle instead of being rejected
\* as busy; the wait has no timeout and ends only when status reads idle.
C26_GuiWaitsForIdle == [][C26_Step]_vars /\ []C26_State

\* a step requested while the stage was moving has been sent after busy polls
C26_Witness ==
  /\ Done("gui_xy")
  /\ movingAtCall
  /\ nStatus >= 3
  /\ statusHist[1]
  /\ retval = <<>>
  /\ nCmd = 1

====
